---- MODULE Spec2Model ----
(***************************************************************************)
(* A model of the fitness-tracker server (src/server/keep-alive.js, the    *)
(* server whose routes start at line 118): the file-backed workout store,  *)
(* the subscription gateway in front of the payment provider with its      *)
(* webhook, and the AI analysis relay; and of the client's workout form    *)
(* with the subscription check it makes, its billing calls and its workout *)
(* list (WorkoutForm.tsx, stripeService.ts, WorkoutList.tsx).              *)
(*                                                                         *)
(* Each route handler is one action.  A handler's provider calls are taken *)
(* to answer (resource_missing being decided by the state); the runs where *)
(* a provider call rejects with another error have an action of their own  *)
(* per route.  What the provider does on its own (a hosted checkout being  *)
(* paid) is a separate action.  The client's form, its billing calls and   *)
(* its workout list are one action per await.  The write of the workouts   *)
(* file is taken to succeed.  Further parts: a second server process on    *)
(* the same workouts file, and the server process from launch to exit.     *)
(***************************************************************************)
EXTENDS Integers, Sequences, FiniteSets, TLC

VARIABLES
    workouts,       \* let workouts = []            (the in-memory collection)
    nextWorkoutId,  \* let nextWorkoutId = 1
    file,           \* content of workouts.json, or NoFile
    creator,        \* history: id -> user_id that created the workout
    wres,           \* the last request to the workout store (req: its body) and its answer
    customers,      \* provider: customers in creation order
    subscriptions,  \* provider: subscriptions in creation order
    sessions,       \* provider: open hosted checkout sessions in creation order
    pending,        \* a create-checkout-session request awaiting the provider
    res,            \* the last request to the subscription gateway and its answer
    ares,           \* the last request for an AI analysis and its answer
    storage,        \* client: localStorage, per user the customer id kept (or Null)
    client,         \* client: the workout form, its submission and what it called
    call,           \* client: the billing call in progress (stripeService.ts)
    log,            \* the mutating provider calls issued by the last gateway request
    peer,           \* workouts and nextWorkoutId of a second server process
    proc,           \* the server process: running or exited, and what start awaits
    ui              \* client: the workout list of App.tsx and WorkoutList.tsx

wvars == <<workouts, nextWorkoutId, file, creator, wres>>
bvars == <<customers, subscriptions, sessions, pending, res>>
avars == <<ares>>
cvars == <<storage, client>>
svars == <<call, log>>
ovars == <<peer, proc, ui>>
vars == <<workouts, nextWorkoutId, file, creator, wres,
          customers, subscriptions, sessions, pending, res, ares, storage, client,
          call, log, peer, proc, ui>>

\* What the steps of one part of the system leave alone
exceptW == <<bvars, avars, cvars, svars, ovars>>
exceptB == <<wvars, avars, cvars, svars, ovars>>
exceptA == <<wvars, bvars, cvars, svars, ovars>>
exceptC == <<wvars, bvars, avars, svars, ovars>>
\* ... and the steps of a billing call, which go through the gateway
exceptS == <<wvars, avars, client, ovars>>
\* ... of two server processes on one workouts file
exceptT == <<bvars, avars, cvars, svars, proc, ui>>
\* ... of the server process from launch to exit
exceptP == <<avars, cvars, call, peer, ui>>
\* ... and of the workout list in front of the workout store
exceptL == <<bvars, avars, cvars, svars, peer, proc>>

-----------------------------------------------------------------------------
(* Bounds and input domains *)

MaxCreates == 2      \* workouts created in one run (caps nextWorkoutId)
MaxCustomers == 2    \* provider customers created in one run
MaxSessions == 2     \* hosted checkout sessions created in one run
MaxKeys == 3         \* keys in one object answered by the analysis workflow
MaxCalls == 3        \* billing calls one browser makes in one run

Users == {"u1", "u2"}
Emails == {"a@x", "b@x"}
\* (userId, email) of the requests: each user's own email, and u2 giving u1's
Logins == {<<"u1", "a@x">>, <<"u2", "b@x">>, <<"u2", "a@x">>}

\* JSON null / a missing value in an answer
Null == "null"
NoFile == [absent |-> TRUE]
Now == "t"

-----------------------------------------------------------------------------
(* Sequence helpers *)

Range(s) == {s[i] : i \in 1..Len(s)}

\* Array.prototype.findIndex over the outcomes of the test on each element:
\* the first index whose outcome is TRUE, 0 for -1
FindIndex(hits) ==
    IF \E i \in 1..Len(hits) : hits[i]
    THEN CHOOSE i \in 1..Len(hits) : hits[i] /\ \A j \in 1..(i - 1) : ~hits[j]
    ELSE 0

\* Array.prototype.splice(i, 1)
RemoveAt(s, i) == [j \in 1..(Len(s) - 1) |-> IF j < i THEN s[j] ELSE s[j + 1]]

-----------------------------------------------------------------------------
(* Workout store: request bodies *)

BodyFields == {"user_id", "type", "duration", "calories", "notes", "ai_analysis"}

\* A JSON request body: `present` is the set of keys it carries; a key that
\* is not present reads as undefined, and its slot holds a fixed filler.
Body(present, u, ty, d, c, n, a) ==
    [present |-> present,
     user_id |-> IF "user_id" \in present THEN u ELSE "",
     type |-> IF "type" \in present THEN ty ELSE "",
     duration |-> IF "duration" \in present THEN d ELSE 0,
     calories |-> IF "calories" \in present THEN c ELSE 0,
     notes |-> IF "notes" \in present THEN n ELSE "",
     ai_analysis |-> IF "ai_analysis" \in present THEN a ELSE ""]

\* The key sets the requests are drawn from: a full body, a body without
\* one of its required fields, the bare query string of DELETE, a one-field
\* update, nothing
Presences ==
    {BodyFields, BodyFields \ {"user_id"}, BodyFields \ {"type"},
     BodyFields \ {"duration"}, BodyFields \ {"calories"},
     {"user_id"}, {"user_id", "duration"}, {}}

\* The body of a request that has none
NoBody == Body({}, "", "", 0, 0, "", "")

Bodies ==
    {Body(p, u, "run", d, 300, "sore", "good") :
        p \in Presences, u \in Users, d \in {0, 30}}

Has(b, f) == f \in b.present

\* JavaScript truthiness of a field (undefined, "", 0 are falsy)
Truthy(b, f) ==
    /\ Has(b, f)
    /\ CASE f \in {"duration", "calories"} -> b[f] # 0
         [] OTHER -> b[f] # ""

\* Number(x) on a JSON number
Number(x) == x

\* A faulty variant: type is not asked for
MissingRequiredButType(b) ==
    ~Truthy(b, "user_id") \/ ~Truthy(b, "duration") \/ ~Has(b, "calories")
\* if (!user_id || !type || !duration || calories === undefined)
MissingRequired(b) ==
    ~Truthy(b, "user_id") \/ ~Truthy(b, "type") \/ ~Truthy(b, "duration")
    \/ ~Has(b, "calories")

-----------------------------------------------------------------------------
(* Workout store: persistence *)

\* A faulty variant: the counter is left out of the file
SavedFileWithoutCounter(ws, nid) == [absent |-> FALSE, workouts |-> ws, nextWorkoutId |-> 0]
\* A faulty variant: the workouts of the file that memory lacks are kept
SavedFileMerging(ws, nid) ==
    LET old == IF file.absent THEN <<>> ELSE file.workouts
    IN [absent |-> FALSE,
        workouts |-> ws \o SelectSeq(old, LAMBDA w : \A i \in 1..Len(ws) : ws[i].id # w.id),
        nextWorkoutId |-> nid]

\* saveWorkouts(): the whole file is rewritten from memory
SavedFile(ws, nid) == [absent |-> FALSE, workouts |-> ws, nextWorkoutId |-> nid]

\* A faulty variant of the filter: no filter
UserWorkoutsAll(ws, userId) == ws
\* workouts.filter(workout => workout.user_id === userId)
UserWorkouts(ws, userId) == SelectSeq(ws, LAMBDA w : w.user_id = userId)

\* A faulty variant of the lookup: by id alone
MatchIndexById(ws, id, b) == FindIndex([i \in 1..Len(ws) |-> ws[i].id = Number(id)])
\* workouts.findIndex(w => w.id === Number(id) && w.user_id === user_id)
MatchIndex(ws, id, b) ==
    FindIndex([i \in 1..Len(ws) |->
                 ws[i].id = Number(id) /\ Has(b, "user_id") /\ ws[i].user_id = b.user_id])

-----------------------------------------------------------------------------
(* Workout store: handlers *)

\* app.get('/api/workouts/:userId')
GetWorkouts(userId) ==
    /\ wres' = [op |-> "list", status |-> 200, userId |-> userId, id |-> 0,
                body |-> UserWorkouts(workouts, userId), req |-> NoBody]
    /\ UNCHANGED <<workouts, nextWorkoutId, file, creator>>

\* app.post('/api/workouts')
PostWorkout(b) ==
    IF MissingRequired(b)
    THEN /\ wres' = [op |-> "create", status |-> 400, userId |-> b.user_id, id |-> 0,
                     body |-> <<>>, req |-> b]
         /\ UNCHANGED <<workouts, nextWorkoutId, file, creator>>
    ELSE LET workout == [id |-> nextWorkoutId,
                         user_id |-> b.user_id,
                         type |-> b.type,
                         duration |-> Number(b.duration),
                         calories |-> Number(b.calories),
                         notes |-> IF Truthy(b, "notes") THEN b.notes ELSE Null,
                         ai_analysis |-> IF Truthy(b, "ai_analysis")
                                         THEN b.ai_analysis ELSE Null,
                         created_at |-> Now,
                         updated_at |-> Null]
         IN /\ nextWorkoutId <= MaxCreates
            /\ nextWorkoutId' = nextWorkoutId + 1
            /\ workouts' = Append(workouts, workout)
            /\ file' = SavedFile(workouts', nextWorkoutId')
            /\ creator' = Append(creator, b.user_id)
            /\ wres' = [op |-> "create", status |-> 201, userId |-> b.user_id,
                        id |-> workout.id, body |-> <<>>, req |-> b]

\* A faulty variant: notes and ai_analysis are reset when not provided
MergedResetting(old, b) ==
    [old EXCEPT
       !.type = IF Truthy(b, "type") THEN b.type ELSE old.type,
       !.duration = IF Has(b, "duration") THEN Number(b.duration) ELSE old.duration,
       !.calories = IF Has(b, "calories") THEN Number(b.calories) ELSE old.calories,
       !.notes = IF Has(b, "notes") THEN b.notes ELSE Null,
       !.ai_analysis = IF Has(b, "ai_analysis") THEN b.ai_analysis ELSE Null,
       !.updated_at = Now]
\* { ...workouts[workoutIndex], type: type || ..., duration: duration !==
\* undefined ? Number(duration) : ..., ..., updated_at: new Date().toISOString() }
Merged(old, b) ==
    [old EXCEPT
       !.type = IF Truthy(b, "type") THEN b.type ELSE old.type,
       !.duration = IF Has(b, "duration") THEN Number(b.duration) ELSE old.duration,
       !.calories = IF Has(b, "calories") THEN Number(b.calories) ELSE old.calories,
       !.notes = IF Has(b, "notes") THEN b.notes ELSE old.notes,
       !.ai_analysis = IF Has(b, "ai_analysis") THEN b.ai_analysis
                       ELSE old.ai_analysis,
       !.updated_at = Now]

\* app.put('/api/workouts/:id')
PutWorkout(id, b) ==
    LET workoutIndex == MatchIndex(workouts, id, b)
        new == Merged(workouts[workoutIndex], b)
    IN IF workoutIndex = 0
       THEN /\ wres' = [op |-> "update", status |-> 404, userId |-> b.user_id,
                        id |-> id, body |-> <<>>, req |-> b]
            /\ UNCHANGED <<workouts, nextWorkoutId, file, creator>>
       ELSE /\ workouts' = [workouts EXCEPT ![workoutIndex] = new]
            /\ file' = SavedFile(workouts', nextWorkoutId)
            /\ wres' = [op |-> "update", status |-> 200, userId |-> b.user_id,
                        id |-> id, body |-> <<>>, req |-> b]
            /\ UNCHANGED <<nextWorkoutId, creator>>

\* app.delete('/api/workouts/:id'), user_id from the query string
DeleteWorkout(id, b) ==
    LET workoutIndex == MatchIndex(workouts, id, b)
    IN IF workoutIndex = 0
       THEN /\ wres' = [op |-> "delete", status |-> 404, userId |-> b.user_id,
                        id |-> id, body |-> <<>>, req |-> NoBody]
            /\ UNCHANGED <<workouts, nextWorkoutId, file, creator>>
       ELSE /\ workouts' = RemoveAt(workouts, workoutIndex)
            /\ file' = SavedFile(workouts', nextWorkoutId)
            /\ wres' = [op |-> "delete", status |-> 200, userId |-> b.user_id,
                        id |-> id, body |-> <<>>, req |-> NoBody]
            /\ UNCHANGED <<nextWorkoutId, creator>>

\* The query string of DELETE carries at most user_id
QueryBodies == {b \in Bodies : b.present \subseteq {"user_id"}}

\* Process restart: loadWorkouts() on the fresh module state ([] and 1)
LoadedWorkouts(f) == IF f.absent THEN <<>> ELSE f.workouts
\* A faulty variant: the counter of the file is not read back
LoadedNextIdReset(f) == 1
\* nextWorkoutId = parsed.nextWorkoutId || 1
LoadedNextId(f) == IF f.absent \/ f.nextWorkoutId = 0 THEN 1 ELSE f.nextWorkoutId

Restart ==
    /\ workouts' = LoadedWorkouts(file)
    /\ nextWorkoutId' = LoadedNextId(file)
    /\ wres' = [op |-> "restart", status |-> 0, userId |-> "", id |-> 0,
                body |-> <<>>, req |-> NoBody]
    /\ UNCHANGED <<file, creator>>

WorkoutIds == 1..MaxCreates

\* The requests of the update runs: a full create per user; updates that give,
\* with the user_id, a new type, an empty type, several other fields, or nothing
CreateBodies == {Body(BodyFields, u, "run", 30, 300, "sore", "good") : u \in Users}

UpdateBodies ==
    UNION {{Body({"user_id", "type"}, u, "swim", 0, 0, "", ""),
            Body({"user_id", "type"}, u, "", 0, 0, "", ""),
            Body({"user_id", "duration", "calories", "notes", "ai_analysis"},
                 u, "", 45, 250, "easy", "fine"),
            Body({"user_id"}, u, "", 0, 0, "", "")} : u \in Users}

\* Two server processes on one workouts file.  Each has its own workouts and
\* nextWorkoutId, loaded at its start; both started before the file existed.
\* The variables workouts and nextWorkoutId are those of the process that
\* handles the next request, peer holds those of the other: here the next
\* request goes to the other process
OtherProcess ==
    /\ workouts' = peer.workouts
    /\ nextWorkoutId' = peer.nextWorkoutId
    /\ peer' = [workouts |-> workouts, nextWorkoutId |-> nextWorkoutId,
                serving |-> 3 - peer.serving]
    /\ UNCHANGED <<file, creator, wres>>

\* The runs with two processes: updates give a new type, and MaxCreates + 1
\* workouts are created in all (a restart can lower nextWorkoutId)
TypeUpdates == {Body({"user_id", "type"}, u, "swim", 0, 0, "", "") : u \in Users}

TNext ==
    \/ \E b \in CreateBodies :
          Len(creator) <= MaxCreates /\ PostWorkout(b) /\ UNCHANGED peer
                                    /\ UNCHANGED exceptT
    \/ \E id \in WorkoutIds, b \in TypeUpdates :
          PutWorkout(id, b) /\ UNCHANGED peer /\ UNCHANGED exceptT
    \/ \E id \in WorkoutIds, b \in QueryBodies :
          DeleteWorkout(id, b) /\ UNCHANGED peer /\ UNCHANGED exceptT
    \/ Restart /\ UNCHANGED peer /\ UNCHANGED exceptT
    \/ OtherProcess /\ UNCHANGED exceptT

WNext ==
    \/ \E u \in Users : GetWorkouts(u) /\ UNCHANGED exceptW
    \/ \E b \in Bodies : PostWorkout(b) /\ UNCHANGED exceptW
    \/ \E id \in WorkoutIds, b \in Bodies : PutWorkout(id, b) /\ UNCHANGED exceptW
    \/ \E id \in WorkoutIds, b \in QueryBodies : DeleteWorkout(id, b) /\ UNCHANGED exceptW
    \/ Restart /\ UNCHANGED exceptW

-----------------------------------------------------------------------------
(* Payment provider: customers, subscriptions, hosted checkout sessions *)

\* Provider ids, by order of creation
CusIds == <<"cus_1", "cus_2", "cus_3", "cus_4">>
\* The customer ids requests carry: provider ids, and a user id sent by mistake
CustomerIdParams == {CusIds[i] : i \in 1..MaxCustomers} \cup {"u1"}

Reverse(s) == [i \in 1..Len(s) |-> s[Len(s) + 1 - i]]
Take(s, n) == IF Len(s) <= n THEN s ELSE SubSeq(s, 1, n)

\* stripe.customers.list({email}): most recent first
CustomersByEmail(email) == SelectSeq(Reverse(customers), LAMBDA c : c.email = email)

\* stripe.customers.retrieve(id): <<customer>>, or <<>> for resource_missing
CustomerRetrieve(id) == SelectSeq(customers, LAMBDA c : c.id = id)

\* stripe.subscriptions.list({customer, status: 'active'}): the indices of the
\* customer's active subscriptions, most recent first
ActiveSubscriptions(id) ==
    SelectSeq(Reverse([i \in 1..Len(subscriptions) |-> i]),
              LAMBDA i : subscriptions[i].customer = id
                         /\ subscriptions[i].status = "active")

\* stripe.customers.update(id, {metadata: {userId}})
CustomersUpdate(id, userId) ==
    [i \in 1..Len(customers) |->
        IF customers[i].id = id THEN [customers[i] EXCEPT !.userId = userId]
        ELSE customers[i]]

\* stripe.subscriptions.cancel(id) for each listed subscription
SubscriptionsCancel(idxs) ==
    [i \in 1..Len(subscriptions) |->
        IF i \in Range(idxs) THEN [subscriptions[i] EXCEPT !.status = "canceled"]
        ELSE subscriptions[i]]

\* A request to the gateway and its answer; res.json(...) without
\* res.status(...) is a 200.  `error` says the JSON body has an error field,
\* `json` that the body is JSON at all; body, sig, received and handled are
\* those of a webhook delivery.
Answer(op, customerId, userId, email, status) ==
    [op |-> op, customerId |-> customerId, userId |-> userId, email |-> email,
     status |-> status, isSubscribed |-> FALSE, clearData |-> FALSE,
     success |-> FALSE, error |-> FALSE, sessionId |-> 0,
     json |-> TRUE, received |-> FALSE, handled |-> "", body |-> "", sig |-> <<>>]

\* The hosted checkout of an open session is paid: the provider starts an
\* active subscription for the session's customer
ProviderCompletesCheckout(i) ==
    /\ sessions' = RemoveAt(sessions, i)
    /\ subscriptions' = Append(subscriptions,
                               [customer |-> sessions[i].customer, status |-> "active"])
    /\ res' = Answer("provider", sessions[i].customer, "", "", 0)
    /\ UNCHANGED <<customers, pending>>

-----------------------------------------------------------------------------
(* Subscription gateway: handlers *)

Idle == [phase |-> "idle", userId |-> "", email |-> "", data |-> <<>>]

\* Sessions created so far: the open ones and the paid ones, each of which
\* started one subscription
SessionsCreated == Len(sessions) + Len(subscriptions)

\* A faulty variant: the active-subscription test left out
CheckoutBlockedNever(id) == FALSE
\* if (existingSubscriptions.data.length > 0) return res.status(400)
CheckoutBlocked(id) == Len(Take(ActiveSubscriptions(id), 1)) > 0

\* app.post('/create-checkout-session') from the answer `data` of
\* existingCustomers = await stripe.customers.list({email, limit: 1}) on
CheckoutRest(userId, email, data) ==
    LET reuse == Len(data) > 0
        cid == IF reuse THEN data[1].id ELSE CusIds[Len(customers) + 1]
    IN /\ IF reuse
          THEN customers' = IF data[1].userId # userId
                            THEN CustomersUpdate(cid, userId) ELSE customers
          ELSE /\ Len(customers) < MaxCustomers
               /\ customers' = Append(customers,
                                      [id |-> cid, email |-> email, userId |-> userId])
       /\ IF CheckoutBlocked(cid)
          THEN /\ res' = [Answer("checkout", cid, userId, email, 400) EXCEPT
                            !.error = TRUE]
               /\ UNCHANGED <<subscriptions, sessions>>
          ELSE /\ SessionsCreated < MaxSessions
               /\ sessions' = Append(sessions, [customer |-> cid])
               /\ res' = [Answer("checkout", cid, userId, email, 200) EXCEPT
                            !.sessionId = SessionsCreated + 1]
               /\ UNCHANGED subscriptions

\* A create-checkout-session request that no other request overlaps
CreateCheckoutSession(userId, email) ==
    /\ CheckoutRest(userId, email, Take(CustomersByEmail(email), 1))
    /\ UNCHANGED pending

\* A create-checkout-session request that other requests overlap: it has the
\* answer of stripe.customers.list and waits for the event loop.  One request
\* at a time is held back, and only on an empty answer, where the overlap
\* matters: the customer is created although one exists by then.
CheckoutLookup(userId, email) ==
    /\ pending.phase = "idle"
    /\ CustomersByEmail(email) = <<>>
    /\ pending' = [phase |-> "listed", userId |-> userId, email |-> email,
                   data |-> Take(CustomersByEmail(email), 1)]
    /\ res' = Answer("await", "", userId, email, 0)
    /\ UNCHANGED <<customers, subscriptions, sessions>>

\* ... and goes on
CheckoutProceed ==
    /\ pending.phase = "listed"
    /\ CheckoutRest(pending.userId, pending.email, pending.data)
    /\ pending' = Idle

\* customerId === userId || (customerId.length === 36 && customerId.includes('-'))
LooksLikeUserId(customerId, userId) == customerId = userId \/ customerId \in Users

\* A faulty variant: the owner test left out
CheckOwnerMismatchNever(customer, userId) == FALSE
\* if (customer.metadata.userId !== userId)
CheckOwnerMismatch(customer, userId) == customer.userId # userId

\* A variant of the mismatch answer that carries clearData
CheckMismatchAnswerClear(customerId, userId) ==
    [Answer("check", customerId, userId, "", 200) EXCEPT !.clearData = TRUE]
\* what the mismatch branch answers: res.json({ isSubscribed: false })
CheckMismatchAnswer(customerId, userId) == Answer("check", customerId, userId, "", 200)

\* A faulty variant: an open checkout session counts as a subscription
IsSubscribedOnCheckout(customerId) ==
    \/ Len(ActiveSubscriptions(customerId)) > 0
    \/ \E i \in 1..Len(sessions) : sessions[i].customer = customerId
\* const isSubscribed = subscriptions.data.length > 0
IsSubscribed(customerId) == Len(ActiveSubscriptions(customerId)) > 0

\* app.get('/check-subscription/:customerId/:userId')
CheckSubscription(customerId, userId) ==
    LET found == CustomerRetrieve(customerId)
    IN /\ res' =
            IF LooksLikeUserId(customerId, userId)
            THEN [Answer("check", customerId, userId, "", 200) EXCEPT
                    !.error = TRUE, !.clearData = TRUE]
            ELSE IF Len(found) = 0
            THEN [Answer("check", customerId, userId, "", 200) EXCEPT
                    !.error = TRUE, !.clearData = TRUE]
            ELSE IF CheckOwnerMismatch(found[1], userId)
            THEN CheckMismatchAnswer(customerId, userId)
            ELSE [Answer("check", customerId, userId, "", 200) EXCEPT
                    !.isSubscribed = IsSubscribed(customerId)]
       /\ UNCHANGED <<customers, subscriptions, sessions, pending>>

\* !customerId.startsWith('cus_')
NotCustomerIdFormat(customerId) == customerId \notin Range(CusIds)

\* app.get('/check-subscription/:customerId'), the legacy route
CheckSubscriptionLegacy(customerId) ==
    LET found == CustomerRetrieve(customerId)
    IN /\ res' =
            IF NotCustomerIdFormat(customerId)
            THEN [Answer("checkLegacy", customerId, "", "", 200) EXCEPT
                    !.error = TRUE, !.clearData = TRUE]
            ELSE IF Len(found) = 0
            THEN [Answer("checkLegacy", customerId, "", "", 200) EXCEPT
                    !.clearData = TRUE]
            ELSE [Answer("checkLegacy", customerId, "", "", 200) EXCEPT
                    !.isSubscribed = IsSubscribed(customerId)]
       /\ UNCHANGED <<customers, subscriptions, sessions, pending>>

\* A faulty variant: the owner test left out
CancelOwnerMismatchNever(customer, userId) == FALSE
\* if (customer.metadata.userId !== userId) return res.status(403)
CancelOwnerMismatch(customer, userId) == customer.userId # userId

\* stripe.subscriptions.list({customer, status: 'active', limit: 1}).data
CancelListed(customerId) == Take(ActiveSubscriptions(customerId), 1)

\* app.post('/cancel-subscription/:customerId/:userId')
CancelSubscription(customerId, userId) ==
    LET found == CustomerRetrieve(customerId)
        listed == CancelListed(customerId)
    IN IF Len(found) = 0
       THEN /\ res' = [Answer("cancel", customerId, userId, "", 404) EXCEPT
                         !.error = TRUE, !.clearData = TRUE]
            /\ UNCHANGED <<customers, subscriptions, sessions, pending>>
       ELSE IF CancelOwnerMismatch(found[1], userId)
       THEN /\ res' = [Answer("cancel", customerId, userId, "", 403) EXCEPT
                         !.error = TRUE]
            /\ UNCHANGED <<customers, subscriptions, sessions, pending>>
       ELSE /\ subscriptions' = SubscriptionsCancel(listed)
            /\ res' = [Answer("cancel", customerId, userId, "", 200) EXCEPT
                         !.success = TRUE]
            /\ UNCHANGED <<customers, sessions, pending>>

\* app.post('/cancel-subscription/:customerId'), the legacy route
CancelSubscriptionLegacy(customerId) ==
    LET found == CustomerRetrieve(customerId)
        listed == Take(ActiveSubscriptions(customerId), 1)
    IN IF Len(found) = 0
       THEN /\ res' = [Answer("cancelLegacy", customerId, "", "", 404) EXCEPT
                         !.error = TRUE]
            /\ UNCHANGED <<customers, subscriptions, sessions, pending>>
       ELSE /\ subscriptions' = SubscriptionsCancel(listed)
            /\ res' = [Answer("cancelLegacy", customerId, "", "", 200) EXCEPT
                         !.success = TRUE]
            /\ UNCHANGED <<customers, sessions, pending>>

\* The loop of find-customer-by-email: the index in `list` of the first
\* customer that is tagged with userId or has an active subscription, 0 if none
FindScan(list, userId) ==
    FindIndex([i \in 1..Len(list) |->
                 \/ list[i].userId = userId
                 \/ Len(Take(ActiveSubscriptions(list[i].id), 1)) > 0])

\* app.post('/find-customer-by-email'); an email of "" is a missing email
FindCustomerByEmail(email, userId) ==
    LET list == CustomersByEmail(email)
        i == FindScan(list, userId)
    IN IF email = ""
       THEN /\ res' = [Answer("find", "", userId, email, 400) EXCEPT !.error = TRUE]
            /\ UNCHANGED <<customers, subscriptions, sessions, pending>>
       ELSE IF i = 0
       THEN /\ res' = Answer("find", Null, userId, email, 200)
            /\ UNCHANGED <<customers, subscriptions, sessions, pending>>
       ELSE /\ customers' = IF list[i].userId = userId THEN customers
                            ELSE CustomersUpdate(list[i].id, userId)
            /\ res' = Answer("find", list[i].id, userId, email, 200)
            /\ UNCHANGED <<subscriptions, sessions, pending>>

-----------------------------------------------------------------------------
(* Subscription gateway: the provider's webhook *)

\* process.env.STRIPE_WEBHOOK_SECRET, and a secret that is not it
WebhookSecret == "whsec_server"
Secrets == {WebhookSecret, "whsec_other"}

\* The cases of switch (event.type)
SubscriptionEvents ==
    {"customer.subscription.created", "customer.subscription.updated",
     "customer.subscription.deleted"}

\* The payloads delivered, each named by its event.type
EventTypes ==
    {"customer.subscription.created", "customer.subscription.deleted", "invoice.paid"}

\* The stripe-signature header of a payload signed with a secret; the header
\* can also be missing
Sign(body, secret) == <<body, secret>>
NoSignature == <<>>
Signatures == {Sign(b, s) : b \in EventTypes, s \in Secrets} \cup {NoSignature}

\* A faulty variant: the payload is parsed without verifying the signature
ConstructEventUnverified(body, sig, secret) == <<body>>
\* stripe.webhooks.constructEvent(body, sig, secret): <<event>>, or <<>> when
\* it throws because sig is not the signature of body under secret
ConstructEvent(body, sig, secret) == IF sig = Sign(body, secret) THEN <<body>> ELSE <<>>

\* app.post('/webhook'); `handled` is the branch of the switch that logged
Webhook(body, sig) ==
    LET event == ConstructEvent(body, sig, WebhookSecret)
    IN /\ res' =
            IF Len(event) = 0
            THEN [Answer("webhook", "", "", "", 400) EXCEPT
                    !.json = FALSE, !.body = body, !.sig = sig]
            ELSE [Answer("webhook", "", "", "", 200) EXCEPT
                    !.received = TRUE,
                    !.handled = IF event[1] \in SubscriptionEvents
                                THEN "subscription" ELSE "unhandled",
                    !.body = body, !.sig = sig]
       /\ UNCHANGED <<customers, subscriptions, sessions, pending>>

-----------------------------------------------------------------------------
(* AI analysis: the answer of the analysis workflow and its normalisation *)

\* const possibleFields = ['output', 'result', 'response', 'message', 'analysis']
possibleFields == <<"output", "result", "response", "message", "analysis">>

\* The keys of the objects the workflow answers with
ResponseKeys == {"data", "unrelated"} \cup Range(possibleFields)

\* The value of a key the object does not have
Undefined == "<undefined>"

\* The non-empty value each key carries when it carries one
FieldText ==
    [data |-> "x", output |-> "y", result |-> "r", response |-> "s", message |-> "m",
     analysis |-> "a", unrelated |-> "1"]

NoFields == [k \in ResponseKeys |-> Undefined]

\* JSON values: a string, null, an object
Str(t) == [kind |-> "string", text |-> t, fields |-> NoFields]
JsonNull == [kind |-> "null", text |-> "", fields |-> NoFields]
Obj(f) == [kind |-> "object", text |-> "", fields |-> f]

\* JSON.stringify(data): the string that spells the object out
Stringify(data) == [kind |-> "serialised", text |-> "", fields |-> data.fields]

\* What the fetch of the workflow can come to: the network fails, the status
\* is not ok, the body is no JSON, or the body is a JSON value
Unreachable == [kind |-> "unreachable", text |-> "", fields |-> NoFields]
NotOk == [kind |-> "notok", text |-> "", fields |-> NoFields]
NotJson == [kind |-> "notjson", text |-> "", fields |-> NoFields]
NoReply == [kind |-> "none", text |-> "", fields |-> NoFields]

\* The objects of at most MaxKeys keys, each key empty ("") or carrying its text
Objects ==
    {Obj([k \in ResponseKeys |->
            CASE c[k] = 0 -> Undefined [] c[k] = 1 -> "" [] OTHER -> FieldText[k]]) :
        c \in {d \in [ResponseKeys -> 0..2] :
                 Cardinality({k \in ResponseKeys : d[k] # 0}) <= MaxKeys}}

Replies == Objects \cup {Str("z"), Str(""), JsonNull, Unreachable, NotOk, NotJson}

\* if (data[field]): the key is there and its value is truthy
FieldTruthy(data, field) ==
    data.fields[field] # Undefined /\ data.fields[field] # ""

\* for (const field of possibleFields) { if (data[field]) { ...; break } }
\* from position i on: <<the value taken>>, or <<>> when the loop ends without
RECURSIVE ScanFields(_, _)
ScanFields(data, i) ==
    IF i > Len(possibleFields) THEN <<>>
    ELSE IF FieldTruthy(data, possibleFields[i])
         THEN <<Str(data.fields[possibleFields[i]])>>
         ELSE ScanFields(data, i + 1)

\* A faulty variant: data is looked at after the candidate fields
ExtractAnalysisDataLast(data) ==
    IF data.kind = "string" THEN <<data>>
    ELSE IF data.kind = "null" THEN <<>>
    ELSE IF ScanFields(data, 1) # <<>> THEN ScanFields(data, 1)
    ELSE IF FieldTruthy(data, "data") THEN <<Str(data.fields.data)>>
    ELSE <<Stringify(data)>>
\* The normalisation of the parsed body `data`: <<analysis>>, or <<>> when it
\* throws (data.data of null is a TypeError)
ExtractAnalysis(data) ==
    IF data.kind = "string" THEN <<data>>
    ELSE IF data.kind = "null" THEN <<>>
    ELSE IF FieldTruthy(data, "data") THEN <<Str(data.fields.data)>>
    ELSE IF ScanFields(data, 1) # <<>> THEN ScanFields(data, 1)
    ELSE <<Stringify(data)>>

\* A request for an analysis and its answer
AnalysisAnswer(op, notes, userId, reply, status) ==
    [op |-> op, notes |-> notes, userId |-> userId, reply |-> reply,
     status |-> status, error |-> FALSE, analysis |-> NoReply]

\* app.post('/api/ai-analysis'): the workflow is called only with notes and
\* userId given; `reply` is what the call comes to
AIAnalysis(notes, userId, reply) ==
    ares' =
        IF notes = "" \/ userId = ""
        THEN [AnalysisAnswer("relay", notes, userId, NoReply, 400) EXCEPT !.error = TRUE]
        ELSE IF reply.kind \in {"unreachable", "notok", "notjson"}
                \/ ExtractAnalysis(reply) = <<>>
        THEN [AnalysisAnswer("relay", notes, userId, reply, 500) EXCEPT !.error = TRUE]
        ELSE [AnalysisAnswer("relay", notes, userId, reply, 200) EXCEPT
                !.analysis = ExtractAnalysis(reply)[1]]

\* sendToWebhook(notes) of the client: the same chain; status 0 is the
\* promise rejected
SendToWebhook(notes, reply) ==
    ares' =
        IF reply.kind \in {"unreachable", "notok", "notjson"}
           \/ ExtractAnalysis(reply) = <<>>
        THEN [AnalysisAnswer("sendToWebhook", notes, "", reply, 0) EXCEPT !.error = TRUE]
        ELSE [AnalysisAnswer("sendToWebhook", notes, "", reply, 200) EXCEPT
                !.analysis = ExtractAnalysis(reply)[1]]

-----------------------------------------------------------------------------
(* Client: checkSubscriptionStatus *)

\* What a fetch of the client comes to: the promise rejects ("throws"), the
\* status is not ok ("notok"; noSuch: a 500 whose error says 'No such
\* customer'), the body of an ok answer is no JSON ("notjson"), or an ok answer
\* with its fields; "unused" is a fetch that was not made
Outcome(kind) ==
    [kind |-> kind, isSubscribed |-> FALSE, clearData |-> FALSE, noSuch |-> FALSE,
     customerId |-> Null]
Unused == Outcome("unused")

\* Answers of POST /find-customer-by-email as the client sees them
FindOutcomes ==
    {Outcome("throws"), Outcome("notok"), Outcome("ok"),
     [Outcome("ok") EXCEPT !.customerId = "cus_1"]}

\* Answers of GET /check-subscription/:customerId/:userId
SecureOutcomes ==
    {Outcome("throws"), Outcome("notok"), Outcome("notjson"), Outcome("ok"),
     [Outcome("ok") EXCEPT !.isSubscribed = TRUE],
     [Outcome("ok") EXCEPT !.clearData = TRUE]}

\* Answers of GET /check-subscription/:customerId, the legacy route
LegacyOutcomes ==
    SecureOutcomes \cup {[Outcome("notok") EXCEPT !.noSuch = TRUE]}

\* findCustomerIdByEmail(email, userId): the customer id, or Null on any failure
FindCustomerIdByEmail(find) ==
    IF find.kind = "ok" THEN find.customerId ELSE Null

\* What checkSubscriptionStatus comes to: it resolves to isSubscribed, or the
\* try block threw; stored is the customer id localStorage keeps afterwards
Resolved(isSubscribed, stored) ==
    [threw |-> FALSE, rejected |-> FALSE, isSubscribed |-> isSubscribed, stored |-> stored]
Threw(stored) ==
    [threw |-> TRUE, rejected |-> FALSE, isSubscribed |-> FALSE, stored |-> stored]

\* A faulty variant: clearData leaves the kept id alone
FromAnswerKeeping(data, customerId) ==
    Resolved(~data.clearData /\ data.isSubscribed, customerId)
\* An ok answer of either route: clearData clears the kept id
FromAnswer(data, customerId) ==
    IF data.clearData THEN Resolved(FALSE, Null)
    ELSE Resolved(data.isSubscribed, customerId)

\* The try block of checkSubscriptionStatus(userId, userEmail); `stored` is
\* the kept customer id, `email` says whether an email is at hand
CheckStatusTry(stored, email, find, secure, legacy) ==
    LET customerId == IF stored # Null THEN stored
                      ELSE IF email THEN FindCustomerIdByEmail(find)
                      ELSE Null
    IN IF customerId = Null THEN Resolved(FALSE, Null)
       ELSE IF secure.kind = "throws" THEN Threw(customerId)
       ELSE IF secure.kind = "notok"
       THEN IF legacy.kind = "throws" THEN Threw(customerId)
            ELSE IF legacy.kind = "notok"
            THEN Resolved(FALSE, IF legacy.noSuch THEN Null ELSE customerId)
            ELSE IF legacy.kind = "notjson" THEN Threw(customerId)
            ELSE FromAnswer(legacy, customerId)
       ELSE IF secure.kind = "notjson" THEN Threw(customerId)
       ELSE FromAnswer(secure, customerId)

\* catch (error) { ...; return { isSubscribed: false } }
Caught(attempt) ==
    IF attempt.threw THEN [attempt EXCEPT !.isSubscribed = FALSE] ELSE attempt

\* checkSubscriptionStatus(userId, userEmail)
CheckSubscriptionStatus(stored, email, find, secure, legacy) ==
    Caught(CheckStatusTry(stored, email, find, secure, legacy))

\* The fetches a call makes, the others marked unused
FetchesMade(stored, email, find, secure, legacy) ==
    LET asked == stored = Null /\ email
        customerId == IF stored # Null THEN stored
                      ELSE IF email THEN FindCustomerIdByEmail(find) ELSE Null
    IN [stored |-> stored,
        find |-> IF asked THEN find ELSE Unused,
        secure |-> IF customerId # Null THEN secure ELSE Unused,
        legacy |-> IF customerId # Null /\ secure.kind = "notok" THEN legacy ELSE Unused]

NoFetches == [stored |-> Null, find |-> Unused, secure |-> Unused, legacy |-> Unused]

-----------------------------------------------------------------------------
(* Client: the workout form *)

\* const premiumMessage = '... AI Analysis is a premium feature. ...'
PremiumMessage == "premium"

\* What getAIAnalysis and createWorkout come to
AnalysisOutcomes == {"good", "", "throws"}
CreateOutcomes == {"created", "throws"}

\* The form at rest, before any submission; checked, analysis and saved tell
\* what the last submission did
FormIdle ==
    [pc |-> "idle", userId |-> "", notes |-> "", checked |-> "none", fetches |-> NoFetches,
     analysis |-> "none", aiAnalysis |-> Null, saved |-> "none", sentAnalysis |-> Null,
     error |-> FALSE]

\* A faulty variant: the analysis is asked for whatever the status
AnalysisWantedAlways(subscriptionStatus) == TRUE
\* const hasSubscription = subscriptionStatus.isSubscribed; if (hasSubscription)
AnalysisWanted(subscriptionStatus) == subscriptionStatus.isSubscribed

\* A faulty variant: an error of the analysis flow ends the submission
AfterAnalysisErrorAbort == "idle"
\* catch (err) { console.error(...) } of the analysis flow: on to the save
AfterAnalysisError == "save"

\* handleSubmit up to the first await; notes is notes.trim(), and a userId of
\* "" is nobody logged in
Submit(userId, notes) ==
    /\ client.pc = "idle"
    /\ client' = IF userId = ""
                 THEN [FormIdle EXCEPT !.notes = notes, !.error = TRUE]
                 ELSE [FormIdle EXCEPT !.pc = IF notes # "" THEN "check" ELSE "save",
                                       !.userId = userId, !.notes = notes]
    /\ UNCHANGED storage

\* await checkSubscriptionStatus(user.id) returns
CheckReturns(email, find, secure, legacy) ==
    LET stored == storage[client.userId]
        status == CheckSubscriptionStatus(stored, email, find, secure, legacy)
        made == FetchesMade(stored, email, find, secure, legacy)
    IN /\ client.pc = "check"
       /\ storage' = [storage EXCEPT ![client.userId] = status.stored]
       /\ client' =
            IF status.rejected
            THEN [client EXCEPT !.pc = AfterAnalysisError, !.checked = "rejected",
                                !.fetches = made]
            ELSE IF AnalysisWanted(status)
            THEN [client EXCEPT !.pc = "analysis", !.fetches = made,
                                !.checked = IF status.isSubscribed THEN "subscribed"
                                            ELSE "notSubscribed"]
            ELSE [client EXCEPT !.pc = "save", !.checked = "notSubscribed",
                                !.fetches = made, !.aiAnalysis = PremiumMessage]

\* await getAIAnalysis(notes.trim(), user.id) returns or throws
AnalysisReturns(outcome) ==
    /\ client.pc = "analysis"
    /\ client' =
         IF outcome = "throws"
         THEN [client EXCEPT !.pc = AfterAnalysisError, !.analysis = "failed"]
         ELSE [client EXCEPT !.pc = "save", !.analysis = "answered",
                             !.aiAnalysis = outcome]
    /\ UNCHANGED storage

\* ai_analysis: aiAnalysis || undefined
OrUndefined(x) == IF x = Null \/ x = "" THEN Null ELSE x

\* await createWorkout(workoutData) returns or throws; then onAddWorkout and
\* resetForm, or setError
CreateReturns(outcome) ==
    /\ client.pc = "save"
    /\ client' = [client EXCEPT !.pc = "idle",
                                !.saved = IF outcome = "throws" THEN "failed" ELSE "saved",
                                !.sentAnalysis = OrUndefined(client.aiAnalysis),
                                !.error = outcome = "throws"]
    /\ UNCHANGED storage

-----------------------------------------------------------------------------
(* Subscription gateway: provider calls that reject *)

\* The mutating provider calls a request issued, in order: <<call, target>>
NoCalls == <<>>

\* catch (error) { ...; res.status(500).json({ error: ... }) } of a route
Failure(op, customerId, userId, email) ==
    [Answer(op, customerId, userId, email, 500) EXCEPT !.error = TRUE]

\* The provider calls of each route that can reject
CheckoutFaults ==
    {"customers.list", "customers.write", "subscriptions.list", "sessions.create"}
CancelFaults == {"customers.retrieve", "subscriptions.list", "subscriptions.cancel"}
FindFaults == {"customers.list", "customers.update"}

\* The customer create-checkout-session goes on with, from the answer `data`
\* of stripe.customers.list
CheckoutCustomer(data) ==
    IF Len(data) > 0 THEN data[1].id ELSE CusIds[Len(customers) + 1]

\* stripe.customers.update or stripe.customers.create of create-checkout-session
CheckoutCustomerCalls(userId, email) ==
    LET data == Take(CustomersByEmail(email), 1)
    IN IF Len(data) > 0
       THEN IF data[1].userId # userId
            THEN << <<"customers.update", data[1].id>> >> ELSE <<>>
       ELSE << <<"customers.create", email>> >>

\* The mutating provider calls of one create-checkout-session request
CheckoutCalls(userId, email) ==
    LET cid == CheckoutCustomer(Take(CustomersByEmail(email), 1))
    IN CheckoutCustomerCalls(userId, email)
       \o (IF CheckoutBlocked(cid) THEN <<>>
           ELSE << <<"checkout.sessions.create", cid>> >>)

\* app.post('/create-checkout-session') when the provider call `at` rejects:
\* the calls made before it have taken effect, the catch answers 500
CreateCheckoutSessionFails(userId, email, at) ==
    LET data == Take(CustomersByEmail(email), 1)
        cid == CheckoutCustomer(data)
        written == CheckoutCustomerCalls(userId, email)
        after == IF Len(data) > 0
                 THEN IF data[1].userId # userId
                      THEN CustomersUpdate(cid, userId) ELSE customers
                 ELSE Append(customers, [id |-> cid, email |-> email, userId |-> userId])
    IN /\ at = "customers.write" => written # <<>>
       /\ at = "sessions.create" => ~CheckoutBlocked(cid)
       /\ Len(after) <= MaxCustomers
       /\ customers' = IF at \in {"customers.list", "customers.write"}
                       THEN customers ELSE after
       /\ log' = IF at = "customers.list" THEN NoCalls
                 ELSE IF at = "sessions.create"
                 THEN written \o << <<"checkout.sessions.create", cid>> >>
                 ELSE written
       /\ res' = Failure("checkout", "", userId, email)
       /\ UNCHANGED <<subscriptions, sessions, pending>>

\* The mutating provider calls of one owner-validated cancel request
CancelCalls(customerId, userId) ==
    LET found == CustomerRetrieve(customerId)
        listed == CancelListed(customerId)
    IN IF Len(found) = 0 \/ CancelOwnerMismatch(found[1], userId) THEN NoCalls
       ELSE [i \in 1..Len(listed) |-> <<"subscriptions.cancel", listed[i]>>]

\* app.post('/cancel-subscription/:customerId/:userId') when the provider call
\* `at` rejects (the retrieve with an error that is not resource_missing)
CancelSubscriptionFails(customerId, userId, at) ==
    LET found == CustomerRetrieve(customerId)
        listed == CancelListed(customerId)
    IN /\ at # "customers.retrieve" =>
            Len(found) > 0 /\ ~CancelOwnerMismatch(found[1], userId)
       /\ at = "subscriptions.cancel" => Len(listed) > 0
       /\ log' = IF at = "subscriptions.cancel"
                 THEN << <<"subscriptions.cancel", listed[1]>> >> ELSE NoCalls
       /\ res' = Failure("cancel", customerId, userId, "")
       /\ UNCHANGED <<customers, subscriptions, sessions, pending>>

\* The mutating provider calls of one find-customer-by-email request
FindCalls(email, userId) ==
    LET list == CustomersByEmail(email)
        i == FindScan(list, userId)
    IN IF email = "" \/ i = 0 THEN NoCalls
       ELSE IF list[i].userId = userId THEN NoCalls
       ELSE << <<"customers.update", list[i].id>> >>

\* app.post('/find-customer-by-email') when the provider call `at` rejects
FindCustomerByEmailFails(email, userId, at) ==
    /\ email # ""
    /\ at = "customers.update" => FindCalls(email, userId) # NoCalls
    /\ log' = IF at = "customers.update" THEN FindCalls(email, userId) ELSE NoCalls
    /\ res' = Failure("find", "", userId, email)
    /\ UNCHANGED <<customers, subscriptions, sessions, pending>>

\* app.get('/check-subscription/:customerId/:userId') when a provider call
\* rejects (the retrieve with an error that is not resource_missing)
CheckSubscriptionFails(customerId, userId) ==
    /\ ~LooksLikeUserId(customerId, userId)
    /\ log' = NoCalls
    /\ res' = Failure("check", customerId, userId, "")
    /\ UNCHANGED <<customers, subscriptions, sessions, pending>>

\* app.get('/check-subscription/:customerId') when a provider call rejects
CheckSubscriptionLegacyFails(customerId) ==
    /\ ~NotCustomerIdFormat(customerId)
    /\ log' = NoCalls
    /\ res' = Failure("checkLegacy", customerId, "", "")
    /\ UNCHANGED <<customers, subscriptions, sessions, pending>>

-----------------------------------------------------------------------------
(* Client: the billing calls of stripeService.ts against the gateway *)

\* No call made yet.  stored: the id localStorage kept when the call began;
\* find, secure, legacy: what the fetches of a status check came to; sent: the
\* requests the call has sent; isSubscribed, success, threw: how it ended.
\* The locals of a call are gone once it has returned (Returned).  n counts
\* the calls begun, up to MaxCalls.
CallIdle ==
    [fn |-> "none", pc |-> "idle", userId |-> "", email |-> "", stored |-> Null,
     customerId |-> Null, find |-> Unused, secure |-> Unused, legacy |-> Unused,
     sent |-> <<>>, isSubscribed |-> FALSE, success |-> FALSE, threw |-> FALSE,
     n |-> 0]

Begun == IF call.n < MaxCalls THEN call.n + 1 ELSE MaxCalls

Returned(request, isSubscribed, success, threw) ==
    [CallIdle EXCEPT !.fn = call.fn, !.userId = call.userId, !.pc = "done",
                     !.n = call.n,
                     !.sent = Append(call.sent, request),
                     !.isSubscribed = isSubscribed, !.success = success,
                     !.threw = threw]

\* response.ok and await response.json() of an answer of the gateway
AsOutcome(answer) ==
    [Outcome(IF answer.status = 200 THEN "ok" ELSE "notok") EXCEPT
        !.isSubscribed = answer.isSubscribed,
        !.clearData = answer.clearData,
        !.customerId = IF answer.op = "find" /\ answer.customerId # ""
                       THEN answer.customerId ELSE Null]

\* localStorage holds a customer id for the user from before: an earlier
\* session, or an earlier version of the client
StorageLeft(userId, customerId) ==
    /\ call.fn = "none"
    /\ storage[userId] = Null
    /\ storage' = [storage EXCEPT ![userId] = customerId]
    /\ UNCHANGED <<bvars, call, log>>

\* checkSubscriptionStatus(userId, userEmail) and cancelSubscription(userId,
\* userEmail) up to the first await; an email of "" is no email at hand
Begin(fn, userId, email) ==
    LET stored == storage[userId]
    IN /\ call.pc \in {"idle", "done"}
       /\ call' = [CallIdle EXCEPT
                     !.n = Begun,
                     !.fn = fn, !.userId = userId, !.email = email,
                     !.stored = stored, !.customerId = stored,
                     !.pc = IF stored # Null
                            THEN IF fn = "check" THEN "secure" ELSE "health"
                            ELSE IF email # "" THEN "find" ELSE "done"]
       /\ UNCHANGED <<bvars, storage, log>>

\* createCheckoutSession(priceId, userId, email) up to the first await
BeginCheckout(userId, email) ==
    /\ call.pc \in {"idle", "done"}
    /\ call' = [CallIdle EXCEPT !.n = Begun, !.fn = "checkout", !.userId = userId,
                                !.email = email, !.pc = "health"]
    /\ UNCHANGED <<bvars, storage, log>>

\* await findCustomerIdByEmail(email, userId) returns
FindAnswered(o) ==
    LET customerId == FindCustomerIdByEmail(o)
    IN /\ storage' = IF customerId # Null
                     THEN [storage EXCEPT ![call.userId] = customerId] ELSE storage
       /\ call' = IF customerId = Null THEN Returned("find", FALSE, FALSE, FALSE)
                  ELSE [call EXCEPT
                          !.find = o, !.customerId = customerId,
                          !.sent = Append(@, "find"),
                          !.pc = IF call.fn = "check" THEN "secure" ELSE "health"]

\* The request reaches the gateway and is answered
FindAnswers ==
    /\ call.pc = "find"
    /\ FindCustomerByEmail(call.email, call.userId)
    /\ log' = FindCalls(call.email, call.userId)
    /\ FindAnswered(AsOutcome(res'))

\* ... a provider call of the handler rejects
FindFails(at) ==
    /\ call.pc = "find"
    /\ FindCustomerByEmailFails(call.email, call.userId, at)
    /\ FindAnswered(AsOutcome(res'))

\* ... the fetch rejects: no answer
FindUnanswered ==
    /\ call.pc = "find"
    /\ FindAnswered(Outcome("throws"))
    /\ UNCHANGED <<bvars, log>>

\* checkSubscriptionStatus returns after the owner-validated route (legacy
\* unused) or after the legacy route
CheckDone(secure, legacy, request) ==
    LET status == CheckSubscriptionStatus(call.stored, call.email # "", call.find,
                                          secure, legacy)
    IN /\ storage' = [storage EXCEPT ![call.userId] = status.stored]
       /\ call' = Returned(request, status.isSubscribed, FALSE, FALSE)

\* await fetch(`${SERVER_URL}/check-subscription/${customerId}/${userId}`)
\* returns: if (!response.ok) on to the legacy route
SecureAnswered(o) ==
    IF o.kind = "notok"
    THEN /\ call' = [call EXCEPT !.secure = o, !.sent = Append(@, "check"),
                                 !.pc = "legacy"]
         /\ UNCHANGED storage
    ELSE CheckDone(o, Unused, "check")

SecureAnswers ==
    /\ call.pc = "secure"
    /\ CheckSubscription(call.customerId, call.userId)
    /\ log' = NoCalls
    /\ SecureAnswered(AsOutcome(res'))

SecureFails ==
    /\ call.pc = "secure"
    /\ CheckSubscriptionFails(call.customerId, call.userId)
    /\ SecureAnswered(AsOutcome(res'))

SecureUnanswered ==
    /\ call.pc = "secure"
    /\ SecureAnswered(Outcome("throws"))
    /\ UNCHANGED <<bvars, log>>

\* await fetch(`${SERVER_URL}/check-subscription/${customerId}`) returns
LegacyAnswers ==
    /\ call.pc = "legacy"
    /\ CheckSubscriptionLegacy(call.customerId)
    /\ log' = NoCalls
    /\ CheckDone(call.secure, AsOutcome(res'), "checkLegacy")

LegacyFails ==
    /\ call.pc = "legacy"
    /\ CheckSubscriptionLegacyFails(call.customerId)
    /\ CheckDone(call.secure, AsOutcome(res'), "checkLegacy")

LegacyUnanswered ==
    /\ call.pc = "legacy"
    /\ CheckDone(call.secure, Outcome("throws"), "checkLegacy")
    /\ UNCHANGED <<bvars, log>>

\* await testServerConnection() / await checkServerHealth() returns: GET
\* /health was answered ok, or not
HealthAnswered(ok) ==
    /\ call.pc = "health"
    /\ call' = IF ok THEN [call EXCEPT !.sent = Append(@, "health"), !.pc = call.fn]
                ELSE Returned("health", FALSE, FALSE, call.fn = "checkout")
    /\ UNCHANGED <<bvars, storage, log>>

\* A faulty variant: a cancel that failed is sent again
AfterCancelRetrying(success) == IF success THEN "done" ELSE "cancel"
\* every path after the cancel request returns
AfterCancel(success) == "done"

\* cancelSubscription after its fetch: kind "throws" is a fetch that rejected;
\* what it returns and the customer id localStorage keeps
CancelResult(kind, answer, stored) ==
    IF kind = "throws" THEN [success |-> FALSE, stored |-> stored]
    ELSE IF answer.status = 404 /\ answer.error
    THEN [success |-> FALSE, stored |-> Null]
    ELSE IF answer.status # 200 THEN [success |-> FALSE, stored |-> stored]
    ELSE [success |-> answer.success, stored |-> stored]

CancelAnswered(kind, answer) ==
    LET result == CancelResult(kind, answer, storage[call.userId])
    IN /\ storage' = [storage EXCEPT ![call.userId] = result.stored]
       /\ call' = IF AfterCancel(result.success) = "done"
                  THEN Returned("cancel", FALSE, result.success, FALSE)
                  ELSE [call EXCEPT !.sent = Append(@, "cancel"),
                                    !.pc = AfterCancel(result.success)]

\* await fetch(cancelUrl, { method: 'POST' }) returns
CancelAnswers ==
    /\ call.pc = "cancel"
    /\ CancelSubscription(call.customerId, call.userId)
    /\ log' = CancelCalls(call.customerId, call.userId)
    /\ CancelAnswered("ok", res')

CancelFails(at) ==
    /\ call.pc = "cancel"
    /\ CancelSubscriptionFails(call.customerId, call.userId, at)
    /\ CancelAnswered("ok", res')

CancelUnanswered ==
    /\ call.pc = "cancel"
    /\ CancelAnswered("throws", res)
    /\ UNCHANGED <<bvars, log>>

\* createCheckoutSession after its fetch: if (!response.ok) throw; else the
\* customer id is kept and the browser goes to the hosted checkout, unless
\* redirectToCheckout reports an error
CheckoutAnswered(kind, answer, redirected) ==
    LET ok == kind # "throws" /\ answer.status = 200
    IN /\ storage' = IF ok THEN [storage EXCEPT ![call.userId] = answer.customerId]
                     ELSE storage
       /\ call' = Returned("checkout", FALSE, ok /\ redirected, ~(ok /\ redirected))

\* await fetch(`${SERVER_URL}/create-checkout-session`, ...) returns
CheckoutAnswers(redirected) ==
    /\ call.pc = "checkout"
    /\ CreateCheckoutSession(call.userId, call.email)
    /\ log' = CheckoutCalls(call.userId, call.email)
    /\ CheckoutAnswered("ok", res', redirected)

CheckoutFails(at) ==
    /\ call.pc = "checkout"
    /\ CreateCheckoutSessionFails(call.userId, call.email, at)
    /\ CheckoutAnswered("ok", res', TRUE)

CheckoutUnanswered ==
    /\ call.pc = "checkout"
    /\ CheckoutAnswered("throws", res, TRUE)
    /\ UNCHANGED <<bvars, log>>

-----------------------------------------------------------------------------
(* Server process: launch, the two things launch awaits, and exit *)

\* The process after a start that went through: the key was there, the
\* connection test of the provider was answered, the port is bound
Serving == [state |-> "running", secret |-> TRUE, test |-> "connected", listen |-> "listening"]

\* Requests are handled once app.listen has called back
Up == proc.state = "running" /\ proc.listen = "listening"

\* node keep-alive.js, with or without STRIPE_SECRET_KEY: without it
\* process.exit(1) at once; with it the connection test is started
\* (stripe.customers.list), loadWorkouts() runs and app.listen is called
Launch(secret) ==
    /\ proc.state # "running"
    /\ IF secret
       THEN /\ proc' = [state |-> "running", secret |-> TRUE, test |-> "pending",
                        listen |-> "pending"]
            /\ Restart
       ELSE /\ proc' = [state |-> "failed", secret |-> FALSE, test |-> "none",
                        listen |-> "none"]
            /\ UNCHANGED wvars

\* stripe.customers.list({ limit: 1 }) of the connection test settles: .then
\* logs, .catch is process.exit(1)
ConnectionTestSettles(ok) ==
    /\ proc.state = "running"
    /\ proc.test = "pending"
    /\ proc' = IF ok THEN [proc EXCEPT !.test = "connected"]
               ELSE [proc EXCEPT !.state = "failed", !.test = "rejected"]

\* app.listen(port, '0.0.0.0', callback).on('error', ...): the callback, or
\* the error handler, which is process.exit(1) whatever the error code
ListenOutcomes == {"listening", "EADDRINUSE", "error"}
ListenSettles(outcome) ==
    /\ proc.state = "running"
    /\ proc.listen = "pending"
    /\ proc' = IF outcome = "listening" THEN [proc EXCEPT !.listen = "listening"]
               ELSE [proc EXCEPT !.state = "failed", !.listen = outcome]

\* process.on('SIGTERM') / process.on('SIGINT'): process.exit(0)
Terminate ==
    /\ proc.state = "running"
    /\ proc' = [proc EXCEPT !.state = "stopped"]

\* The process from launch to exit, under requests that are served, requests
\* that are refused (a create without its required fields) and requests
\* whose first provider call rejects
PNext ==
    \/ \E secret \in BOOLEAN :
          Launch(secret) /\ UNCHANGED <<bvars, log>> /\ UNCHANGED exceptP
    \/ \E ok \in BOOLEAN :
          ConnectionTestSettles(ok) /\ UNCHANGED <<wvars, bvars, log>>
                                    /\ UNCHANGED exceptP
    \/ \E outcome \in ListenOutcomes :
          ListenSettles(outcome) /\ UNCHANGED <<wvars, bvars, log>>
                                 /\ UNCHANGED exceptP
    \/ Terminate /\ UNCHANGED <<wvars, bvars, log>> /\ UNCHANGED exceptP
    \/ \E b \in CreateBodies \cup TypeUpdates :
          Up /\ PostWorkout(b) /\ UNCHANGED <<bvars, log, proc>> /\ UNCHANGED exceptP
    \/ \E l \in Logins :
          Up /\ CreateCheckoutSessionFails(l[1], l[2], "customers.list")
             /\ UNCHANGED <<wvars, proc>> /\ UNCHANGED exceptP
    \/ \E c \in CustomerIdParams, u \in Users :
          Up /\ CheckSubscriptionFails(c, u) /\ UNCHANGED <<wvars, proc>>
             /\ UNCHANGED exceptP
    \/ \E c \in CustomerIdParams, u \in Users :
          Up /\ CancelSubscriptionFails(c, u, "customers.retrieve")
             /\ UNCHANGED <<wvars, proc>> /\ UNCHANGED exceptP

-----------------------------------------------------------------------------
(* Client: the workout list (App.tsx, WorkoutList.tsx) and the save of the  *)
(* form, in front of the workout store                                      *)

NoFetch == [state |-> "none", body |-> <<>>]
NoSave == [state |-> "none", req |-> NoBody, saved |-> <<>>]

\* Nobody logged in: WorkoutList is not mounted.  added is history: the ids
\* of the workouts onAddWorkout was called with
ListIdle ==
    [user |-> "", localWorkouts |-> <<>>, storedWorkouts |-> <<>>, loading |-> TRUE,
     error |-> FALSE, fetch |-> NoFetch, save |-> NoSave, added |-> {}]

\* id.toString() of a workout id
IdText == <<"1", "2", "3", "4", "5", "6", "7", "8", "9">>
IdToString(id) == IdText[id]

\* The frontend format of a backend workout
Frontend(bw) ==
    [id |-> IdToString(bw.id), type |-> bw.type, duration |-> bw.duration,
     date |-> bw.created_at, calories |-> bw.calories,
     notes |-> OrUndefined(bw.notes), ai_analysis |-> OrUndefined(bw.ai_analysis)]

\* backendWorkouts.map(bw => ({ ... }))
Converted(backendWorkouts) ==
    [i \in 1..Len(backendWorkouts) |-> Frontend(backendWorkouts[i])]

\* setLocalWorkouts(prev => [workout, ...prev])
addWorkout(workout, prev) == <<workout>> \o prev

\* setLocalWorkouts([]) whatever was fetched
handleWorkoutsUpdate(fetched) == <<>>

\* [...workouts, ...storedWorkouts.filter(sw => !localWorkoutIds.has(sw.id))]
combinedWorkouts(local, stored) ==
    local \o SelectSeq(stored, LAMBDA sw : \A i \in 1..Len(local) : local[i].id # sw.id)

\* new Date(date).getTime(): every timestamp of a run is Now
Time(date) == IF date = Now THEN 1 ELSE 0

\* combinedWorkouts.sort((a, b) => Time(b.date) - Time(a.date)): most recent
\* first, the order of equal dates kept
RECURSIVE sortedWorkouts(_)
sortedWorkouts(ws) ==
    IF Len(ws) <= 1 THEN ws
    ELSE LET rest == sortedWorkouts(Tail(ws))
             k == Cardinality({i \in 1..Len(rest) :
                                 Time(rest[i].date) > Time(Head(ws).date)})
         IN SubSeq(rest, 1, k) \o <<Head(ws)>> \o SubSeq(rest, k + 1, Len(rest))

\* The list WorkoutList renders once loading is over
Displayed == sortedWorkouts(combinedWorkouts(ui.localWorkouts, ui.storedWorkouts))

\* The user logs in: WorkoutList mounts and its effect calls fetchWorkouts,
\* which runs up to the await of getWorkouts
SignIn(userId) ==
    /\ ui.user = ""
    /\ ui' = [ui EXCEPT !.user = userId, !.loading = TRUE,
                        !.fetch = [state |-> "sent", body |-> <<>>]]
    /\ UNCHANGED wvars

\* The Retry button shown with the error: fetchWorkouts again
Retry ==
    /\ ui.user # ""
    /\ ui.error
    /\ ui.fetch.state = "none"
    /\ ui' = [ui EXCEPT !.loading = TRUE, !.fetch = [state |-> "sent", body |-> <<>>]]
    /\ UNCHANGED wvars

\* The server handles GET /api/workouts/:userId of the list
ListAnswered ==
    /\ ui.fetch.state = "sent"
    /\ GetWorkouts(ui.user)
    /\ ui' = [ui EXCEPT !.fetch = [state |-> "answered", body |-> wres'.body]]

\* await getWorkouts(user.id) returns: setStoredWorkouts, the parent's
\* onWorkoutsUpdate, setError(null), setLoading(false)
FetchReturns ==
    LET convertedWorkouts == Converted(ui.fetch.body)
    IN /\ ui.fetch.state = "answered"
       /\ ui' = [ui EXCEPT !.storedWorkouts = convertedWorkouts,
                           !.localWorkouts = handleWorkoutsUpdate(convertedWorkouts),
                           !.error = FALSE, !.loading = FALSE, !.fetch = NoFetch]
       /\ UNCHANGED wvars

\* await getWorkouts(user.id) throws (no answer): setError, setLoading(false)
FetchThrows ==
    /\ ui.fetch.state = "sent"
    /\ ui' = [ui EXCEPT !.error = TRUE, !.loading = FALSE, !.fetch = NoFetch]
    /\ UNCHANGED wvars

\* handleSubmit of the form reaches createWorkout(workoutData), user_id being
\* user.id: the POST is sent
SaveSent(b) ==
    /\ ui.user # ""
    /\ b.user_id = ui.user
    /\ ui.save.state = "none"
    /\ ui' = [ui EXCEPT !.save = [state |-> "sent", req |-> b, saved |-> <<>>]]
    /\ UNCHANGED wvars

\* The server handles POST /api/workouts of the form and answers the workout
SaveAnswered ==
    /\ ui.save.state = "sent"
    /\ PostWorkout(ui.save.req)
    /\ ui' = [ui EXCEPT !.save =
                IF wres'.status = 201
                THEN [@ EXCEPT !.state = "answered",
                               !.saved = <<workouts'[Len(workouts')]>>]
                ELSE [@ EXCEPT !.state = "refused"]]

\* await createWorkout(workoutData) returns: the workout in frontend format,
\* onAddWorkout(workout)
SaveReturns ==
    LET workout == Frontend(ui.save.saved[1])
    IN /\ ui.save.state = "answered"
       /\ ui' = [ui EXCEPT !.localWorkouts = addWorkout(workout, @),
                           !.added = @ \cup {workout.id}, !.save = NoSave]
       /\ UNCHANGED wvars

\* await createWorkout(workoutData) throws (no answer, or an answer that is
\* not ok): the form shows its error, the list is left alone
SaveThrows ==
    /\ ui.save.state \in {"sent", "refused"}
    /\ ui' = [ui EXCEPT !.save = NoSave]
    /\ UNCHANGED wvars

\* One browser with the list and the form, and workouts created from
\* elsewhere
LNext ==
    \/ \E u \in Users : SignIn(u) /\ UNCHANGED exceptL
    \/ Retry /\ UNCHANGED exceptL
    \/ ListAnswered /\ UNCHANGED exceptL
    \/ FetchReturns /\ UNCHANGED exceptL
    \/ FetchThrows /\ UNCHANGED exceptL
    \/ \E b \in CreateBodies : SaveSent(b) /\ UNCHANGED exceptL
    \/ SaveAnswered /\ UNCHANGED exceptL
    \/ SaveReturns /\ UNCHANGED exceptL
    \/ SaveThrows /\ UNCHANGED exceptL
    \/ \E b \in CreateBodies : PostWorkout(b) /\ UNCHANGED ui /\ UNCHANGED exceptL

-----------------------------------------------------------------------------

(* Next-state relations *)

BNext ==
    \/ \E l \in Logins : CreateCheckoutSession(l[1], l[2]) /\ UNCHANGED exceptB
    \/ \E l \in Logins : CheckoutLookup(l[1], l[2]) /\ UNCHANGED exceptB
    \/ CheckoutProceed /\ UNCHANGED exceptB
    \/ \E i \in 1..Len(sessions) : ProviderCompletesCheckout(i) /\ UNCHANGED exceptB
    \/ \E c \in CustomerIdParams, u \in Users :
          CheckSubscription(c, u) /\ UNCHANGED exceptB
    \/ \E c \in CustomerIdParams : CheckSubscriptionLegacy(c) /\ UNCHANGED exceptB
    \/ \E c \in CustomerIdParams, u \in Users :
          CancelSubscription(c, u) /\ UNCHANGED exceptB
    \/ \E c \in CustomerIdParams : CancelSubscriptionLegacy(c) /\ UNCHANGED exceptB
    \/ \E e \in Emails \cup {""}, u \in Users :
          FindCustomerByEmail(e, u) /\ UNCHANGED exceptB

\* The workout store under creates and updates of varied fields
UNext ==
    \/ \E b \in CreateBodies : PostWorkout(b) /\ UNCHANGED exceptW
    \/ \E id \in WorkoutIds, b \in UpdateBodies : PutWorkout(id, b) /\ UNCHANGED exceptW
    \/ \E id \in WorkoutIds, b \in QueryBodies : DeleteWorkout(id, b) /\ UNCHANGED exceptW

\* The gateway with the webhook: checkout, payment at the provider, webhook
\* deliveries (by the provider or by anyone else), status checks and cancels
GNext ==
    \/ \E l \in Logins : CreateCheckoutSession(l[1], l[2]) /\ UNCHANGED exceptB
    \/ \E i \in 1..Len(sessions) : ProviderCompletesCheckout(i) /\ UNCHANGED exceptB
    \/ \E b \in EventTypes, g \in Signatures : Webhook(b, g) /\ UNCHANGED exceptB
    \/ \E c \in CustomerIdParams, u \in Users :
          CheckSubscription(c, u) /\ UNCHANGED exceptB
    \/ \E c \in CustomerIdParams : CheckSubscriptionLegacy(c) /\ UNCHANGED exceptB
    \/ \E c \in CustomerIdParams, u \in Users :
          CancelSubscription(c, u) /\ UNCHANGED exceptB

\* The analysis relay of the server and the direct call of the client
ANext ==
    \/ \E n \in {"", "sore"}, u \in {"u1", ""}, r \in Replies :
          AIAnalysis(n, u, r) /\ UNCHANGED exceptA
    \/ \E r \in Replies : SendToWebhook("sore", r) /\ UNCHANGED exceptA

\* The workout form of one browser: submissions of either user, with and
\* without notes, and every way the calls can come out
CNext ==
    \/ \E u \in Users \cup {""}, n \in {"", "sore"} : Submit(u, n) /\ UNCHANGED exceptC
    \/ \E e \in BOOLEAN, f \in FindOutcomes, c \in SecureOutcomes, l \in LegacyOutcomes :
          CheckReturns(e, f, c, l) /\ UNCHANGED exceptC
    \/ \E o \in AnalysisOutcomes : AnalysisReturns(o) /\ UNCHANGED exceptC
    \/ \E o \in CreateOutcomes : CreateReturns(o) /\ UNCHANGED exceptC

\* (userId, email) of the billing calls of one browser; an email of "" is a
\* call without the optional email
SessionLogins == Logins \cup {<<"u1", "">>}

\* What localStorage can hold for u1 from before: a user id kept as customer
\* id, and a customer id: of no customer, or of whoever is the account's first
LeftIds == {"u1", "cus_1"}

\* One browser making billing calls against the gateway, one call at a time;
\* each request is answered, fails at a provider call, or gets no answer
SNext ==
    \/ \E c \in LeftIds : StorageLeft("u1", c) /\ UNCHANGED exceptS
    \/ \E l \in SessionLogins :
          call.n < MaxCalls /\ Begin("check", l[1], l[2]) /\ UNCHANGED exceptS
    \/ \E l \in Logins :
          call.n < MaxCalls /\ Begin("cancel", l[1], l[2]) /\ UNCHANGED exceptS
    \/ \E l \in Logins :
          call.n < MaxCalls /\ BeginCheckout(l[1], l[2]) /\ UNCHANGED exceptS
    \/ FindAnswers /\ UNCHANGED exceptS
    \/ \E at \in FindFaults : FindFails(at) /\ UNCHANGED exceptS
    \/ FindUnanswered /\ UNCHANGED exceptS
    \/ SecureAnswers /\ UNCHANGED exceptS
    \/ SecureFails /\ UNCHANGED exceptS
    \/ SecureUnanswered /\ UNCHANGED exceptS
    \/ LegacyAnswers /\ UNCHANGED exceptS
    \/ LegacyFails /\ UNCHANGED exceptS
    \/ LegacyUnanswered /\ UNCHANGED exceptS
    \/ \E ok \in BOOLEAN : HealthAnswered(ok) /\ UNCHANGED exceptS
    \/ CancelAnswers /\ UNCHANGED exceptS
    \/ \E at \in CancelFaults : CancelFails(at) /\ UNCHANGED exceptS
    \/ CancelUnanswered /\ UNCHANGED exceptS
    \/ \E r \in BOOLEAN : CheckoutAnswers(r) /\ UNCHANGED exceptS
    \/ \E at \in CheckoutFaults : CheckoutFails(at) /\ UNCHANGED exceptS
    \/ CheckoutUnanswered /\ UNCHANGED exceptS
    \/ \E i \in 1..Len(sessions) :
          ProviderCompletesCheckout(i) /\ UNCHANGED <<storage, call, log>>
                                       /\ UNCHANGED exceptS

\* checkSubscriptionStatus(u1, a@x), called again and again, every request
\* answered by a gateway whose provider calls do not reject
Recheck ==
    \/ Begin("check", "u1", "a@x") /\ UNCHANGED exceptS
    \/ FindAnswers /\ UNCHANGED exceptS
    \/ SecureAnswers /\ UNCHANGED exceptS

\* The browser of u1 with whatever localStorage holds from before, while
\* checkouts are made and paid from any device
RNext ==
    \/ \E c \in LeftIds : StorageLeft("u1", c) /\ UNCHANGED exceptS
    \/ \E l \in Logins :
          CreateCheckoutSession(l[1], l[2]) /\ UNCHANGED <<storage, call, log>>
                                            /\ UNCHANGED exceptS
    \/ \E i \in 1..Len(sessions) :
          ProviderCompletesCheckout(i) /\ UNCHANGED <<storage, call, log>>
                                       /\ UNCHANGED exceptS
    \/ Recheck

-----------------------------------------------------------------------------
(* Specifications *)

\* The server after start: no workouts file yet (so workouts = [] and
\* nextWorkoutId = 1 after loadWorkouts), an empty provider account, no request
Init ==
    /\ workouts = <<>>
    /\ nextWorkoutId = 1
    /\ file = NoFile
    /\ creator = <<>>
    /\ wres = [op |-> "start", status |-> 0, userId |-> "", id |-> 0,
               body |-> <<>>, req |-> NoBody]
    /\ customers = <<>>
    /\ subscriptions = <<>>
    /\ sessions = <<>>
    /\ pending = Idle
    /\ res = Answer("start", "", "", "", 0)
    /\ ares = AnalysisAnswer("start", "", "", NoReply, 0)
    /\ storage = [u \in Users |-> Null]
    /\ client = FormIdle
    /\ call = CallIdle
    /\ log = NoCalls
    /\ peer = [workouts |-> <<>>, nextWorkoutId |-> 1, serving |-> 1]
    /\ proc = Serving
    /\ ui = ListIdle

SpecBilling == Init /\ [][BNext]_vars

SpecWorkouts == Init /\ [][WNext]_vars

SpecUpdates == Init /\ [][UNext]_vars

SpecGateway == Init /\ [][GNext]_vars

SpecAnalysis == Init /\ [][ANext]_vars

SpecClient == Init /\ [][CNext]_vars

SpecSession == Init /\ [][SNext]_vars

\* The calls of u1 go on: a call that can begin does, a fetch returns
SpecRecovery == Init /\ [][RNext]_vars /\ WF_vars(Recheck)

\* Two server processes sharing the workouts file
SpecTwoProcesses == Init /\ [][TNext]_vars

\* The server process from launch to exit
SpecProcess == Init /\ [][PNext]_vars

\* The workout list and the form of one browser
SpecList == Init /\ [][LNext]_vars

-----------------------------------------------------------------------------
(* Properties of the workout store *)

StoreUnchanged == UNCHANGED <<workouts, nextWorkoutId, file>>

\* C1: ownership isolation of list.  What GET /api/workouts/:userId answers
\* for user B holds only stored workouts whose user_id is B, each created by B.
C1_ListOwnershipIsolation ==
    wres.op = "list" =>
        \A i \in 1..Len(wres.body) :
            /\ wres.body[i] \in Range(workouts)
            /\ wres.body[i].user_id = wres.userId
            /\ creator[wres.body[i].id] = wres.userId

\* A list for one user is answered, non-empty, while another user's workout is stored
C1_Witness ==
    /\ wres.op = "list"
    /\ Len(wres.body) > 0
    /\ \E w \in Range(workouts) : w.user_id # wres.userId

\* C9: an update or delete whose (id, user id) pair matches no stored workout
\* answers 404 and changes neither the workouts, nor nextWorkoutId, nor the file.
C9_MismatchIsNotFound ==
    [][(/\ wres'.op \in {"update", "delete"}
        /\ ~\E w \in Range(workouts) : w.id = wres'.id /\ w.user_id = wres'.userId)
       => (wres'.status = 404 /\ StoreUnchanged)]_vars

\* An update was refused with 404 although a workout with that id is stored
\* for another user
C9_Witness ==
    /\ wres.op = "update"
    /\ wres.status = 404
    /\ \E w \in Range(workouts) : w.id = wres.id /\ w.user_id # wres.userId

\* C13: a create whose body lacks type, duration or calories answers 400,
\* stores no workout and consumes no id: the workouts, nextWorkoutId and the
\* file stay as they are.
C13_MissingFieldRejected ==
    [][(wres'.op = "create" /\ ~({"type", "duration", "calories"} \subseteq wres'.req.present))
       => (wres'.status = 400 /\ StoreUnchanged)]_vars

\* A create that names its user and lacks only its type was refused while a
\* workout is stored
C13_Witness ==
    /\ wres.op = "create"
    /\ wres.status = 400
    /\ wres.req.present = BodyFields \ {"type"}
    /\ wres.req.duration # 0
    /\ workouts # <<>>

\* No two stored workouts share an id, and nextWorkoutId is above every stored id
IdsDistinctBelowNext ==
    /\ \A i, j \in 1..Len(workouts) : workouts[i].id = workouts[j].id => i = j
    /\ \A w \in Range(workouts) : w.id >= 1 /\ w.id < nextWorkoutId

\* A successful create takes an id that is positive, not below the counter, and
\* under the counter afterwards
CreateTakesCounter ==
    (wres'.op = "create" /\ wres'.status = 201)
        => /\ wres'.id >= 1
           /\ wres'.id >= nextWorkoutId
           /\ wres'.id < nextWorkoutId'
           /\ \E w \in Range(workouts') : w.id = wres'.id

UpdatableFields == {"type", "duration", "calories", "notes", "ai_analysis"}

\* What a successful update does to the store, with `Provided(b, f)` saying
\* when field f of the body b counts as provided
UpdateFrame(Provided(_, _)) ==
    (wres'.op = "update" /\ wres'.status = 200) =>
        LET b == wres'.req
            i == CHOOSE k \in 1..Len(workouts) :
                     workouts[k].id = wres'.id /\ workouts[k].user_id = b.user_id
            old == workouts[i]
            new == workouts'[i]
        IN /\ Len(workouts') = Len(workouts)
           /\ \A j \in 1..Len(workouts) : j # i => workouts'[j] = workouts[j]
           /\ new.id = old.id
           /\ new.user_id = old.user_id
           /\ new.created_at = old.created_at
           /\ new.updated_at = Now
           /\ \A f \in UpdatableFields :
                 new[f] = IF Provided(b, f) THEN b[f] ELSE old[f]

ProvidedToUpdate(b, f) == IF f = "type" THEN Has(b, f) /\ b[f] # "" ELSE Has(b, f)

C16_DurationPositiveCaloriesNonNegative ==
    \A w \in Range(workouts) : w.duration > 0 /\ w.calories >= 0

-----------------------------------------------------------------------------
(* Properties of the subscription gateway *)

ProviderUnchanged == UNCHANGED <<customers, subscriptions, sessions>>

\* The customer an answer is about belongs to `userId`
OwnedBy(customerId, userId) ==
    \E c \in Range(customers) : c.id = customerId /\ c.userId = userId

HasActive(customerId) == Len(ActiveSubscriptions(customerId)) > 0

\* Who may have sent a check: the userId of the owner-validated route; the
\* legacy route names no user, so any user
Requesters == IF res.op = "check" THEN {res.userId} ELSE Users

\* C2 as stated: every check-subscription request (either route) for a customer
\* id that does not belong to the requesting user answers not-subscribed.
C2_EveryCheckHidesStatus ==
    res.op \in {"check", "checkLegacy"} =>
        \A u \in Requesters : ~OwnedBy(res.customerId, u) => ~res.isSubscribed

\* C2 as amended: the owner-validated route answers not-subscribed for every
\* customer id that does not belong to the requesting userId.
C2_OwnerValidatedCheckHidesStatus ==
    (res.op = "check" /\ ~OwnedBy(res.customerId, res.userId)) => ~res.isSubscribed

\* The owner-validated route was asked about another user's customer that has
\* an active subscription
C2_Witness ==
    /\ res.op = "check"
    /\ \E c \in Range(customers) : c.id = res.customerId /\ c.userId # res.userId
    /\ HasActive(res.customerId)

\* C3: in every reachable state a customer has at most one active subscription.
C3_AtMostOneActiveSubscription ==
    \A c \in Range(customers) : Len(ActiveSubscriptions(c.id)) <= 1

\* C4: create-checkout-session for an email whose customer (the one the handler
\* resolves) already has an active subscription answers 400 with an error and
\* creates no checkout session.
C4_ActiveSubscriptionRejected ==
    [][(res'.op = "checkout" /\ HasActive(res'.customerId))
       => (/\ res'.status = 400
           /\ res'.error
           /\ res'.sessionId = 0
           /\ sessions' = sessions)]_vars

\* A create-checkout-session was refused with 400
C4_Witness ==
    /\ res.op = "checkout"
    /\ res.status = 400
    /\ HasActive(res.customerId)

\* C5: after an owner-validated cancel that answered success:true the customer
\* has no active subscription left.
C5_CancelLeavesNoActive ==
    (res.op = "cancel" /\ res.success) => ~HasActive(res.customerId)

\* C6: a second, consecutive owner-validated cancel of the same customer by the
\* same user answers success:true without an error and changes nothing at the
\* provider.
C6_CancelIdempotent ==
    [][(/\ res.op = "cancel" /\ res.success
        /\ res'.op = "cancel"
        /\ res'.customerId = res.customerId
        /\ res'.userId = res.userId)
       => (res'.success /\ ~res'.error /\ ProviderUnchanged)]_vars

\* C7: the owner-validated cancel answers 404 with success:false and clearData
\* when the customer does not exist, 403 with success:false when its owner tag
\* differs from the userId; either way nothing changes at the provider.
C7_CancelRefusals ==
    [][res'.op = "cancel" =>
         LET found == CustomerRetrieve(res'.customerId)
         IN /\ Len(found) = 0 =>
                 /\ res'.status = 404 /\ ~res'.success /\ res'.clearData
                 /\ ProviderUnchanged
            /\ (Len(found) > 0 /\ found[1].userId # res'.userId) =>
                 /\ res'.status = 403 /\ ~res'.success
                 /\ ProviderUnchanged]_vars

\* A cancel was refused with 403 while the customer has an active subscription
C7_Witness ==
    /\ res.op = "cancel"
    /\ res.status = 403
    /\ HasActive(res.customerId)

FindScanTaggedFirst(list, userId) ==
    IF \E i \in 1..Len(list) : list[i].userId = userId
    THEN FindIndex([i \in 1..Len(list) |-> list[i].userId = userId])
    ELSE FindIndex([i \in 1..Len(list) |->
                      Len(Take(ActiveSubscriptions(list[i].id), 1)) > 0])

\* C10: find-by-email answers the first customer of the email tagged with the
\* userId; only when none is tagged with it, the first one with an active
\* subscription, retagged; otherwise null, and no tag changes.
C10_FindPrefersTagged ==
    [][(res'.op = "find" /\ res'.email # "") =>
         LET list == CustomersByEmail(res'.email)
             i == FindScanTaggedFirst(list, res'.userId)
         IN IF i = 0
            THEN res'.customerId = Null /\ customers' = customers
            ELSE /\ res'.customerId = list[i].id
                 /\ customers' = IF list[i].userId = res'.userId THEN customers
                                 ELSE CustomersUpdate(list[i].id, res'.userId)]_vars

-----------------------------------------------------------------------------
(* Properties of the webhook *)

\* C11: a webhook request whose signature is not the signature of its payload
\* under the server's secret is answered 400; no branch of the switch on the
\* event type runs, and nothing of the server or the provider changes.
C11_UnverifiedWebhookRejected ==
    [][(res'.op = "webhook" /\ res'.sig # Sign(res'.body, WebhookSecret))
       => (/\ res'.status = 400
           /\ ~res'.received
           /\ res'.handled = ""
           /\ ProviderUnchanged
           /\ UNCHANGED <<pending, exceptB>>)]_vars

\* A subscription event signed with another secret was refused while a
\* checkout session is open
C11_Witness ==
    /\ res.op = "webhook"
    /\ res.status = 400
    /\ res.body \in SubscriptionEvents
    /\ res.sig = Sign(res.body, "whsec_other")
    /\ sessions # <<>>

\* C19: every answer of a handler with an error status has a JSON body with
\* an error field.
C19_ErrorsCarryErrorField ==
    res.status >= 400 => (res.json /\ res.error)

\* The provider has started no subscription for the customer yet
NeverActivated(customerId) ==
    \A i \in 1..Len(subscriptions) : subscriptions[i].customer # customerId

\* A create-checkout-session that succeeds answers a session id and the id of a
\* customer tagged with the user, for whom a checkout session is then open
CheckoutAnswersSession ==
    (res'.op = "checkout" /\ res'.status = 200)
        => /\ res'.sessionId # 0
           /\ \E c \in Range(customers') : c.id = res'.customerId /\ c.userId = res'.userId
           /\ \E i \in 1..Len(sessions') : sessions'[i].customer = res'.customerId

\* C20: whether or not any webhook is delivered, a successful
\* create-checkout-session answers a session id and the customer id, and a
\* status check (either route) about a customer for whom the provider has
\* started no subscription yet answers isSubscribed = false.
C20_CheckoutThenNotSubscribed ==
    /\ [][CheckoutAnswersSession]_vars
    /\ []((res.op \in {"check", "checkLegacy"} /\ NeverActivated(res.customerId))
              => ~res.isSubscribed)

\* The owner asks for the status of their customer while its checkout session
\* is open and unpaid
C20_Witness ==
    /\ res.op = "check"
    /\ OwnedBy(res.customerId, res.userId)
    /\ \E i \in 1..Len(sessions) : sessions[i].customer = res.customerId
    /\ NeverActivated(res.customerId)
    /\ ~res.isSubscribed

-----------------------------------------------------------------------------
(* Properties of the analysis normalisation *)

\* The order of the candidate fields as C12 gives it
ClaimedOrder == <<"output", "result", "response", "message", "analysis">>

\* The chain of C12 on a JSON answer, with `Given(reply, k)` saying when key k
\* counts: a string is the answer; else data if given; else the first given
\* candidate; else the serialisation of the whole answer
ChainHolds(Given(_, _)) ==
    LET reply == ares.reply
        got == ares.analysis
    IN /\ ares.status = 200
       /\ IF reply.kind = "string" THEN got = reply
          ELSE IF Given(reply, "data") THEN got = Str(reply.fields.data)
          ELSE IF \E i \in 1..Len(ClaimedOrder) : Given(reply, ClaimedOrder[i])
          THEN \E i \in 1..Len(ClaimedOrder) :
                  /\ Given(reply, ClaimedOrder[i])
                  /\ \A j \in 1..(i - 1) : ~Given(reply, ClaimedOrder[j])
                  /\ got = Str(reply.fields[ClaimedOrder[i]])
          ELSE got = Stringify(reply)

FieldPresent(reply, k) == reply.fields[k] # Undefined
FieldNonEmpty(reply, k) == reply.fields[k] # Undefined /\ reply.fields[k] # ""

Normalised == ares.op \in {"relay", "sendToWebhook"} /\ ares.notes # "" /\
              (ares.op = "relay" => ares.userId # "")

\* C12 as stated: for every JSON answer of the workflow the chain is followed
\* with a field counting as soon as it is present.
C12_ChainOnPresentFields ==
    (Normalised /\ ares.reply.kind \in {"string", "null", "object"})
        => ChainHolds(FieldPresent)

\* C12 as amended: for every answer that is a JSON string or object the chain
\* is followed with a field counting when it is present with a non-empty
\* (truthy) value; a field that is present but empty is passed over.
C12_ChainOnTruthyFields ==
    (Normalised /\ ares.reply.kind \in {"string", "object"})
        => ChainHolds(FieldNonEmpty)

\* The relay answered from the candidate field message, with data present
\* but empty and the earlier candidates absent or empty
C12_Witness ==
    /\ ares.op = "relay"
    /\ ares.status = 200
    /\ ares.reply.kind = "object"
    /\ ares.reply.fields.data = ""
    /\ ares.reply.fields.output = ""
    /\ ares.reply.fields.result = Undefined
    /\ ares.analysis = Str("m")

-----------------------------------------------------------------------------
(* Properties of the workout form *)

\* C17: within a submission getAIAnalysis is awaited or has been called only
\* when the subscription check of that submission answered isSubscribed = true.
C17_AnalysisOnlyWhenSubscribed ==
    (client.pc = "analysis" \/ client.analysis # "none") => client.checked = "subscribed"

\* The analysis was called in a submission whose check fell back to the legacy
\* route
C17_Witness ==
    /\ client.analysis = "answered"
    /\ client.checked = "subscribed"
    /\ client.fetches.legacy.kind = "ok"

\* The subscription check of the submission met a failure: a fetch it made
\* rejected, was answered with a status that is not ok and no other route
\* answered for it, or had a body that is no JSON
CheckFailed ==
    LET f == client.fetches
    IN \/ f.find.kind \in {"throws", "notok"}
       \/ f.secure.kind \in {"throws", "notjson"}
       \/ f.secure.kind = "notok" /\ f.legacy.kind \in {"throws", "notok", "notjson"}

-----------------------------------------------------------------------------
(* Properties of the owner tag and of cancellation *)

\* C27: the owner tag of a customer, once set, is not changed by any request:
\* neither create-checkout-session nor find-customer-by-email, called with the
\* email of a customer tagged with another user, retags it.
C27_OwnerTagNeverChanged ==
    [][\A i \in 1..Len(customers) : customers'[i].userId = customers[i].userId]_vars

\* C28: a subscription goes from active to cancelled only in an
\* owner-validated cancel request whose userId is the owner tag of the
\* subscription's customer.
C28_CancelledOnlyByOwner ==
    [][\A i \in 1..Len(subscriptions) :
          (subscriptions[i].status = "active" /\ subscriptions'[i].status = "canceled")
          => /\ res'.op = "cancel"
             /\ res'.customerId = subscriptions[i].customer
             /\ OwnedBy(subscriptions[i].customer, res'.userId)]_vars

-----------------------------------------------------------------------------
(* Properties of the billing calls of the client against the gateway *)

\* How often x occurs in the sequence s
Count(s, x) == Cardinality({i \in 1..Len(s) : s[i] = x})

\* C21: no billing operation is retried.  One call of cancelSubscription or
\* createCheckoutSession sends at most one cancel or create-checkout-session
\* request; one request of the gateway issues each mutating provider call at
\* most once per target; and when a provider call rejects, the request is
\* answered 500 with an error, no call follows the rejected one, and the call
\* of the client ends without success.
C21_NoAutomaticRetry ==
    /\ [](/\ call.fn \in {"cancel", "checkout"} =>
                Count(call.sent, "cancel") + Count(call.sent, "checkout") <= 1
          /\ \A i, j \in 1..Len(log) : i # j => log[i] # log[j])
    /\ [][\A fn \in {"cancel", "checkout"} :
            (call.pc = fn /\ call'.pc # fn /\ res'.status = 500 /\ res' # res)
            => /\ res'.error
               /\ call'.pc = "done"
               /\ ~call'.success
               /\ Count(call'.sent, fn) = 1]_vars

\* A cancel whose stripe.subscriptions.cancel was rejected: one call issued,
\* one request sent, the failure returned
C21_Witness ==
    /\ call.fn = "cancel"
    /\ call.pc = "done"
    /\ ~call.success
    /\ res.op = "cancel"
    /\ res.status = 500
    /\ Len(log) = 1
    /\ log[1][1] = "subscriptions.cancel"
    /\ Count(call.sent, "cancel") = 1
    /\ HasActive(res.customerId)

\* C22: the client clears the user's stored customer id when the gateway
\* reports it stale or malformed.  When a status check is answered with
\* clearData, by the owner-validated or by the legacy route, or a cancel is
\* answered 404, then afterwards localStorage holds no customer id for the
\* user, the call reports not subscribed / no success, and what is stored for
\* other users is unchanged.
C22_StaleMappingCleared ==
    [][(\/ /\ call.fn = "check"
           /\ call.pc \in {"secure", "legacy"}
           /\ call'.pc = "done"
           /\ res'.op = (IF call.pc = "secure" THEN "check" ELSE "checkLegacy")
           /\ res'.customerId = call.customerId
           /\ res'.status = 200
           /\ res'.clearData
        \/ /\ call.fn = "cancel"
           /\ call.pc = "cancel"
           /\ call'.pc = "done"
           /\ res'.op = "cancel"
           /\ res'.customerId = call.customerId
           /\ res'.status = 404)
       => /\ storage'[call.userId] = Null
          /\ ~call'.isSubscribed
          /\ ~call'.success
          /\ \A u \in Users \ {call.userId} : storage'[u] = storage[u]]_vars

\* A status check that was answered clearData has returned: nothing is stored
\* for its user, and the customer id of the other user is still stored
C22_Witness ==
    /\ call.fn = "check"
    /\ call.pc = "done"
    /\ ~call.isSubscribed
    /\ res.op \in {"check", "checkLegacy"}
    /\ res.clearData
    /\ res.customerId # Null
    /\ storage[call.userId] = Null
    /\ \E u \in Users \ {call.userId} : storage[u] # Null

\* C26: checkSubscriptionStatus(userId) returns isSubscribed = true only when
\* the customer it checked is tagged with userId when it returns, on every
\* path, the fallback to the legacy route included.
C26_SubscribedOnlyForOwner ==
    [][(/\ call.fn = "check"
        /\ call.pc \in {"secure", "legacy"}
        /\ call'.pc = "done"
        /\ call'.isSubscribed)
       => \E c \in Range(customers') :
             c.id = call.customerId /\ c.userId = call.userId]_vars

-----------------------------------------------------------------------------
(* Recovery of the stored customer id *)

\* u1 owns a customer: its email is u1's, its tag is u1, its subscription active
OwnsActive ==
    \E c \in Range(customers) :
        c.email = "a@x" /\ c.userId = "u1" /\ HasActive(c.id)

\* checkSubscriptionStatus(u1, a@x) has returned isSubscribed = true
RecheckSubscribed ==
    call.fn = "check" /\ call.userId = "u1" /\ call.pc = "done" /\ call.isSubscribed

\* C29: recovery.  From the time on from which u1 owns a customer with an
\* active subscription, and with gateway and provider answering, the repeated
\* calls of checkSubscriptionStatus(u1, a@x) come to return isSubscribed = true,
\* whatever localStorage held for u1 at the start.
C29_RecoveryEventuallySubscribed == []([]OwnsActive => <>RecheckSubscribed)

\* localStorage holds for u1 the id of a customer that exists and is tagged
\* with another user
NamesAnothersCustomer ==
    \E c \in Range(customers) : c.id = storage["u1"] /\ c.userId # "u1"

\* Recovery when the stored id does not name another user's customer
RecoveryUnlessAnothers ==
    []([](OwnsActive /\ ~NamesAnothersCustomer) => <>RecheckSubscribed)

-----------------------------------------------------------------------------
(* Properties of the workouts file *)

C24_WholeFileFromOwnMemory ==
    [][file' # file => /\ ~file'.absent
                       /\ file'.workouts = workouts'
                       /\ file'.nextWorkoutId = nextWorkoutId']_vars

\* The file was last written by the serving process; a workout created
\* through the other process is absent from it, and carries the id that the
\* serving process gave to a workout of another user
C24_Witness ==
    /\ ~file.absent
    /\ file.workouts = workouts
    /\ \E i \in 1..Len(peer.workouts) :
          /\ peer.workouts[i] \notin Range(file.workouts)
          /\ \E j \in 1..Len(workouts) :
                /\ workouts[j].id = peer.workouts[i].id
                /\ workouts[j].user_id # peer.workouts[i].user_id

-----------------------------------------------------------------------------
(* Properties of the server process *)

\* C25: the process exits on an error only when the billing secret key was
\* missing at launch: launched with the key, it is never ended by an error.
C25_OnlyMissingSecretIsFatal == proc.state = "failed" => ~proc.secret

-----------------------------------------------------------------------------
(* Properties of the workout list *)

\* C30: a workout that createWorkout saved and onAddWorkout added to the
\* local list is in the displayed list in every later state.
C30_AddedStaysDisplayed ==
    \A id \in ui.added : \E i \in 1..Len(Displayed) : Displayed[i].id = id

====
